---- MODULE Spec2Model ----
(***************************************************************************)
(* Prim, Bellman-Ford, Floyd-Warshall and the successor-matrix path walk   *)
(* of src/main.py, together with the control flow of main().               *)
(*                                                                         *)
(* Vertex labels are the integers 1..n (the code keeps them sorted, line   *)
(* 49); math.inf is the sentinel Inf with the saturating Add/Less below;   *)
(* Python's None is the label 0, which is no vertex.                       *)
(***************************************************************************)
EXTENDS Integers, Sequences, FiniteSets, TLC

\* ------------------------------------------------------------------ bounds
\* graphs of up to NumVertices vertices and MaxEdges edges (an undirected
\* edge of the file counts once); a weight is negative or positive, so that
\* two edges can make a cycle of negative, zero or positive total weight
NumVertices == 3
MaxEdges == 2
Weights == {-1, 1}

\* -------------------------------------------------------- values of Python
Inf == 1000000000
None == 0

Add(a, b) == IF a = Inf \/ b = Inf THEN Inf ELSE a + b
Less(a, b) == IF a = Inf THEN FALSE ELSE IF b = Inf THEN TRUE ELSE a < b
Min(a, b) == IF Less(b, a) THEN b ELSE a

Range(s) == {s[x] : x \in DOMAIN s}

\* least element of a set of weights, Inf for the empty set
RECURSIVE MinOf(_)
MinOf(S) ==
  IF S = {} THEN Inf
  ELSE LET x == CHOOSE y \in S : TRUE IN Min(x, MinOf(S \ {x}))

\* pos = {v: i for i, v in enumerate(vertices)}, positions counted from 1
PosOf(vs) == [x \in Range(vs) |-> CHOOSE p \in DOMAIN vs : vs[p] = x]

VARIABLES
  vertices, edges, source, pc, ret,
  dist, parent, pass, updated,
  min_weight, pq, in_tree,
  pos, next_node, fw_k, fw_i, fw_j,
  arg_u, walk_u, walk_v, path,
  is_directed, plot, graphviz, bound, done

inputVars == <<vertices, edges>>
bfVars == <<source, pass, updated>>
primVars == <<min_weight, pq, in_tree>>
fwVars == <<pos, next_node, fw_k, fw_i, fw_j>>
walkVars == <<arg_u, walk_u, walk_v, path>>
mainVars == <<is_directed, plot, graphviz, bound, done>>
vars == <<vertices, edges, source, pc, ret, dist, parent, pass, updated,
          min_weight, pq, in_tree, pos, next_node, fw_k, fw_i, fw_j,
          arg_u, walk_u, walk_v, path, is_directed, plot, graphviz, bound, done>>

\* ------------------------------------------------------------ input graphs
\* the vertex lists and edge lists handed to the three functions
VertexList(n) == [x \in 1..n |-> x]
EdgeTriples(n) == (1..n) \X (1..n) \X Weights
EdgeLists(n) == UNION {[1..m -> EdgeTriples(n)] : m \in 0..MaxEdges}

\* edges_list of read_dot_file: every edge of the file, and for a graph
\* that is not directed the reverse edge right after it
RECURSIVE ReadEdges(_, _)
ReadEdges(directed, fes) ==
  IF fes = <<>> THEN <<>>
  ELSE LET e == Head(fes)
       IN  (IF directed THEN <<e>> ELSE <<e, <<e[2], e[1], e[3]>>>>)
           \o ReadEdges(directed, Tail(fes))

\* sorted(vertices) of read_dot_file: the endpoints of the edges, ascending
RECURSIVE SortedSeq(_)
SortedSeq(S) ==
  IF S = {} THEN <<>>
  ELSE LET m == CHOOSE x \in S : \A y \in S : x <= y
       IN  <<m>> \o SortedSeq(S \ {m})

ReadVertices(fes) == SortedSeq({e[1] : e \in Range(fes)} \cup {e[2] : e \in Range(fes)})

\* no function has run yet: every local is unset
Idle ==
  /\ ret = <<>> /\ dist = <<>> /\ parent = <<>>
  /\ pass = 0 /\ updated = FALSE
  /\ min_weight = <<>> /\ pq = {} /\ in_tree = {}
  /\ pos = <<>> /\ next_node = <<>> /\ fw_k = 0 /\ fw_i = 0 /\ fw_j = 0
  /\ arg_u = None /\ walk_u = None /\ walk_v = None /\ path = <<>>
  /\ bound = {} /\ done = {}

NoCommandLine == plot = FALSE /\ graphviz = FALSE

\* ------------------------------------------------------------ Bellman-Ford
\* a relaxation that stores the edge weight instead of dist[u] + w
BFRelaxEdge_StoresWeight(st, e) ==
  IF Less(Add(st.dist[e[1]], e[3]), st.dist[e[2]])
  THEN [dist |-> [st.dist EXCEPT ![e[2]] = e[3]],
        parent |-> [st.parent EXCEPT ![e[2]] = e[1]],
        updated |-> TRUE]
  ELSE st

\* one execution of the body of "for u, v, w in edges" (lines 98-101)
BFRelaxEdge(st, e) ==
  IF Less(Add(st.dist[e[1]], e[3]), st.dist[e[2]])
  THEN [dist |-> [st.dist EXCEPT ![e[2]] = Add(st.dist[e[1]], e[3])],
        parent |-> [st.parent EXCEPT ![e[2]] = e[1]],
        updated |-> TRUE]
  ELSE st

\* the inner loop over the whole edge list (lines 97-101)
RECURSIVE BFPass(_, _)
BFPass(st, es) ==
  IF es = <<>> THEN st ELSE BFPass(BFRelaxEdge(st, Head(es)), Tail(es))

\* a final scan that looks at no edge
BFScanFails_Never(d, es) == FALSE

\* the final scan (lines 106-108): some edge can still be relaxed
BFScanFails(d, es) ==
  \E x \in DOMAIN es : Less(Add(d[es[x][1]], es[x][3]), d[es[x][2]])

\* lines 91-93
BFInitDist(vs, s) == [x \in Range(vs) \cup {s} |-> IF x = s THEN 0 ELSE Inf]
BFInitParent(vs) == [x \in Range(vs) |-> None]

\* lines 95-103 from pass number p on, as one computation
RECURSIVE BFLoop(_, _, _, _)
BFLoop(st, es, p, n) ==
  IF p >= n - 1 THEN st
  ELSE LET after == BFPass([st EXCEPT !.updated = FALSE], es)
       IN  IF after.updated THEN BFLoop(after, es, p + 1, n) ELSE after

\* bellman_ford as a whole: raised, or the pair (dist, parent)
bellman_ford(vs, es, s) ==
  LET st == BFLoop([dist |-> BFInitDist(vs, s), parent |-> BFInitParent(vs),
                    updated |-> FALSE], es, 0, Len(vs))
  IN  [raised |-> BFScanFails(st.dist, es), dist |-> st.dist, parent |-> st.parent]

InitBF ==
  /\ \E n \in 0..NumVertices :
       /\ vertices = VertexList(n)
       /\ edges \in EdgeLists(n)
       /\ source \in 1..(n + 1)
  /\ is_directed = TRUE
  /\ Idle /\ NoCommandLine
  /\ pc = "call"

\* lines 91-93
BFStart ==
  /\ pc = "call"
  /\ dist' = BFInitDist(vertices, source)
  /\ parent' = BFInitParent(vertices)
  /\ pass' = 0
  /\ updated' = FALSE
  /\ pc' = "for"
  /\ UNCHANGED <<inputVars, source, ret, primVars, fwVars, walkVars, mainVars>>

\* one iteration of "for _ in range(len(vertices) - 1)", break included
BFIterate ==
  /\ pc = "for"
  /\ pass < Len(vertices) - 1
  /\ LET after == BFPass([dist |-> dist, parent |-> parent, updated |-> FALSE], edges)
     IN  /\ dist' = after.dist
         /\ parent' = after.parent
         /\ updated' = after.updated
         /\ pass' = pass + 1
         /\ pc' = IF after.updated THEN "for" ELSE "scan"
  /\ UNCHANGED <<inputVars, source, ret, primVars, fwVars, walkVars, mainVars>>

\* the range is exhausted
BFExhausted ==
  /\ pc = "for"
  /\ pass >= Len(vertices) - 1
  /\ pc' = "scan"
  /\ UNCHANGED <<inputVars, source, ret, dist, parent, pass, updated,
                 primVars, fwVars, walkVars, mainVars>>

\* lines 106-110
BFScan ==
  /\ pc = "scan"
  /\ IF BFScanFails(dist, edges)
     THEN /\ pc' = "raised"
          /\ ret' = <<"ValueError">>
     ELSE /\ pc' = "returned"
          /\ ret' = <<dist, parent>>
  /\ UNCHANGED <<inputVars, source, dist, parent, pass, updated,
                 primVars, fwVars, walkVars, mainVars>>

NextBF == BFStart \/ BFIterate \/ BFExhausted \/ BFScan

SpecBF == InitBF /\ [][NextBF]_vars

\* -------------------------------------------------------------------- Prim
\* adj[x] after lines 58-61: every edge is appended at both of its ends
RECURSIVE Adj(_, _)
Adj(es, x) ==
  IF es = <<>> THEN <<>>
  ELSE LET e == Head(es)
       IN  (IF e[1] = x THEN <<<<e[2], e[3]>>>> ELSE <<>>)
           \o (IF e[2] = x THEN <<<<e[1], e[3]>>>> ELSE <<>>)
           \o Adj(Tail(es), x)

\* heapq orders the entries (weight, vertex) as tuples; no entry occurs twice
\* in the heap, because a vertex is pushed only with a smaller weight
HeapMin(h) ==
  CHOOSE e \in h : \A f \in h : e[1] < f[1] \/ (e[1] = f[1] /\ e[2] <= f[2])

\* a relaxation that takes every edge to a vertex outside the tree, lighter
\* or not
RECURSIVE PrimRelax_NoCompare(_, _, _)
PrimRelax_NoCompare(st, x, nbrs) ==
  IF nbrs = <<>> THEN st
  ELSE LET y == Head(nbrs)[1]
           w == Head(nbrs)[2]
           st2 == IF y \notin st.in_tree
                  THEN [st EXCEPT !.min_weight[y] = w,
                                  !.parent[y] = x,
                                  !.pq = st.pq \cup {<<w, y>>}]
                  ELSE st
       IN  PrimRelax_NoCompare(st2, x, Tail(nbrs))

\* "for v, w in adj[u]" (lines 77-81); u is already in the tree
RECURSIVE PrimRelax(_, _, _)
PrimRelax(st, x, nbrs) ==
  IF nbrs = <<>> THEN st
  ELSE LET y == Head(nbrs)[1]
           w == Head(nbrs)[2]
           st2 == IF y \notin st.in_tree /\ Less(w, st.min_weight[y])
                  THEN [st EXCEPT !.min_weight[y] = w,
                                  !.parent[y] = x,
                                  !.pq = st.pq \cup {<<w, y>>}]
                  ELSE st
       IN  PrimRelax(st2, x, Tail(nbrs))

\* one iteration of "while pq" (lines 72-81)
PrimPop(st, es) ==
  LET top == HeapMin(st.pq)
      popped == [st EXCEPT !.pq = st.pq \ {top}]
  IN  IF top[2] \in st.in_tree THEN popped
      ELSE PrimRelax([popped EXCEPT !.in_tree = st.in_tree \cup {top[2]}],
                     top[2], Adj(es, top[2]))

\* lines 63-69
PrimInit(vs) ==
  [min_weight |-> [x \in Range(vs) |-> IF x = vs[1] THEN 0 ELSE Inf],
   parent |-> [x \in Range(vs) |-> None],
   pq |-> {<<0, vs[1]>>},
   in_tree |-> {}]

\* line 83
RECURSIVE MstEdges(_, _, _)
MstEdges(vs, par, mw) ==
  IF vs = <<>> THEN <<>>
  ELSE (IF par[Head(vs)] # None
        THEN <<<<par[Head(vs)], Head(vs), mw[Head(vs)]>>>> ELSE <<>>)
       \o MstEdges(Tail(vs), par, mw)

\* line 84
RECURSIVE TotalWeight(_, _, _)
TotalWeight(vs, par, mw) ==
  IF vs = <<>> THEN 0
  ELSE (IF par[Head(vs)] # None THEN mw[Head(vs)] ELSE 0)
       + TotalWeight(Tail(vs), par, mw)

PrimResult(vs, st) ==
  <<MstEdges(vs, st.parent, st.min_weight), TotalWeight(vs, st.parent, st.min_weight)>>

RECURSIVE PrimLoop(_, _)
PrimLoop(st, es) == IF st.pq = {} THEN st ELSE PrimLoop(PrimPop(st, es), es)

\* prim as a whole; the empty vertex list gives the bare empty list
prim(vs, es) ==
  IF vs = <<>> THEN <<>> ELSE PrimResult(vs, PrimLoop(PrimInit(vs), es))

InitPrim ==
  /\ \E n \in 0..NumVertices :
       /\ vertices = VertexList(n)
       /\ is_directed \in BOOLEAN
       /\ \E fes \in EdgeLists(n) : edges = ReadEdges(is_directed, fes)
  /\ source = None
  /\ Idle /\ NoCommandLine
  /\ pc = "call"

PrimState == [min_weight |-> min_weight, parent |-> parent, pq |-> pq, in_tree |-> in_tree]

\* lines 55-56
PrimEmpty ==
  /\ pc = "call"
  /\ vertices = <<>>
  /\ ret' = <<>>
  /\ pc' = "returned"
  /\ UNCHANGED <<inputVars, bfVars, dist, parent, primVars, fwVars, walkVars, mainVars>>

\* lines 58-69
PrimStart ==
  /\ pc = "call"
  /\ vertices # <<>>
  /\ LET st == PrimInit(vertices)
     IN  /\ min_weight' = st.min_weight
         /\ parent' = st.parent
         /\ pq' = st.pq
         /\ in_tree' = st.in_tree
  /\ pc' = "while"
  /\ UNCHANGED <<inputVars, bfVars, dist, ret, fwVars, walkVars, mainVars>>

\* one iteration of "while pq" (lines 71-81)
PrimIterate ==
  /\ pc = "while"
  /\ pq # {}
  /\ LET st == PrimPop(PrimState, edges)
     IN  /\ min_weight' = st.min_weight
         /\ parent' = st.parent
         /\ pq' = st.pq
         /\ in_tree' = st.in_tree
  /\ UNCHANGED <<inputVars, bfVars, dist, ret, pc, fwVars, walkVars, mainVars>>

\* lines 83-85
PrimReturn ==
  /\ pc = "while"
  /\ pq = {}
  /\ ret' = PrimResult(vertices, PrimState)
  /\ pc' = "returned"
  /\ UNCHANGED <<inputVars, bfVars, dist, parent, primVars, fwVars, walkVars, mainVars>>

NextPrim == PrimEmpty \/ PrimStart \/ PrimIterate \/ PrimReturn

SpecPrim == InitPrim /\ [][NextPrim]_vars

\* the edge list holds both directions of every edge
Undirected(es) ==
  \A x \in DOMAIN es :
     \E y \in DOMAIN es : es[y] = <<es[x][2], es[x][1], es[x][3]>>

\* vertices joined to the set S by the edges with index in T, either way
RECURSIVE Closure(_, _, _)
Closure(es, T, S) ==
  LET S2 == S \cup {es[x][2] : x \in {y \in T : es[y][1] \in S}}
                \cup {es[x][1] : x \in {y \in T : es[y][2] \in S}}
  IN  IF S2 = S THEN S ELSE Closure(es, T, S2)

Connected(vs, es) == vs # <<>> /\ Closure(es, DOMAIN es, {vs[1]}) = Range(vs)

RECURSIVE SumWeights(_, _)
SumWeights(es, T) ==
  IF T = {} THEN 0
  ELSE LET x == CHOOSE y \in T : TRUE IN es[x][3] + SumWeights(es, T \ {x})

\* the spanning trees: |V|-1 edges that join all the vertices
SpanningTrees(vs, es) ==
  {T \in SUBSET (DOMAIN es) :
     Cardinality(T) = Len(vs) - 1 /\ Closure(es, T, {vs[1]}) = Range(vs)}

MstWeight(vs, es) == MinOf({SumWeights(es, T) : T \in SpanningTrees(vs, es)})

\* ---------------------------------------------------------- Floyd-Warshall
Matrix(n, diag, off) == [a \in 1..n |-> [b \in 1..n |-> IF a = b THEN diag[a] ELSE off]]

\* an initialization that leaves the diagonal of next_node unset
FWDiag_NoSuccessor(vs) ==
  [dist |-> Matrix(Len(vs), [a \in DOMAIN vs |-> 0], Inf),
   next_node |-> Matrix(Len(vs), [a \in DOMAIN vs |-> None], None)]

\* lines 118-123: the empty matrices with the diagonal filled in
FWDiag(vs) ==
  [dist |-> Matrix(Len(vs), [a \in DOMAIN vs |-> 0], Inf),
   next_node |-> Matrix(Len(vs), vs, None)]

\* an initialization in which the last of several parallel edges wins
FWInitEdge_Overwrite(m, ps, e) ==
  [dist |-> [m.dist EXCEPT ![ps[e[1]]][ps[e[2]]] = e[3]],
   next_node |-> [m.next_node EXCEPT ![ps[e[1]]][ps[e[2]]] = e[2]]]

\* lines 125-126 for one edge
FWInitEdge(m, ps, e) ==
  [dist |-> [m.dist EXCEPT ![ps[e[1]]][ps[e[2]]] = Min(@, e[3])],
   next_node |-> [m.next_node EXCEPT ![ps[e[1]]][ps[e[2]]] = e[2]]]

RECURSIVE FWInitEdges(_, _, _)
FWInitEdges(m, ps, es) ==
  IF es = <<>> THEN m ELSE FWInitEdges(FWInitEdge(m, ps, Head(es)), ps, Tail(es))

\* lines 116-126
FWInit(vs, es) == FWInitEdges(FWDiag(vs), PosOf(vs), es)

\* a relaxation that takes the successor from row k instead of row i
FWRelax_SuccessorOfK(m, k, i, j) ==
  LET via == Add(m.dist[i][k], m.dist[k][j])
  IN  IF Less(via, m.dist[i][j])
      THEN [dist |-> [m.dist EXCEPT ![i][j] = via],
            next_node |-> [m.next_node EXCEPT ![i][j] = m.next_node[k][j]]]
      ELSE m

\* lines 131-133 at the positions k, i, j
FWRelax(m, k, i, j) ==
  LET via == Add(m.dist[i][k], m.dist[k][j])
  IN  IF Less(via, m.dist[i][j])
      THEN [dist |-> [m.dist EXCEPT ![i][j] = via],
            next_node |-> [m.next_node EXCEPT ![i][j] = m.next_node[i][k]]]
      ELSE m

\* lines 128-133 from the t-th triple (k, i, j) on, k outermost; n is the
\* number of rows of the matrix
RECURSIVE FWLoop(_, _)
FWLoop(m, t) ==
  LET n == Len(m.dist)
  IN  IF t >= n * n * n THEN m
      ELSE FWLoop(FWRelax(m, (t \div (n * n)) + 1, ((t \div n) % n) + 1, (t % n) + 1),
                  t + 1)

\* floyd_warshall as a whole: dist and next_node (pos is PosOf(vs))
floyd_warshall(vs, es) == FWLoop(FWInit(vs, es), 0)

InitFW ==
  /\ \E n \in 0..NumVertices :
       /\ vertices = VertexList(n)
       /\ edges \in EdgeLists(n)
  /\ source = None
  /\ is_directed = TRUE
  /\ Idle /\ NoCommandLine
  /\ pc = "call"

\* lines 116-126
FWStart ==
  /\ pc = "call"
  /\ pos' = PosOf(vertices)
  /\ LET m == FWInit(vertices, edges)
     IN  /\ dist' = m.dist
         /\ next_node' = m.next_node
  /\ fw_k' = 1 /\ fw_i' = 1 /\ fw_j' = 1
  /\ pc' = IF Len(vertices) = 0 THEN "returned" ELSE "loop"
  /\ UNCHANGED <<inputVars, bfVars, ret, parent, primVars, walkVars, mainVars>>

\* one execution of the body of the triple loop, and the step to the next
\* triple; after the last one the function returns
FWStep ==
  /\ pc = "loop"
  /\ LET m == FWRelax([dist |-> dist, next_node |-> next_node], fw_k, fw_i, fw_j)
         n == Len(vertices)
     IN  /\ dist' = m.dist
         /\ next_node' = m.next_node
         /\ fw_j' = IF fw_j < n THEN fw_j + 1 ELSE 1
         /\ fw_i' = IF fw_j < n THEN fw_i ELSE IF fw_i < n THEN fw_i + 1 ELSE 1
         /\ fw_k' = IF fw_j < n \/ fw_i < n THEN fw_k ELSE fw_k + 1
         /\ pc' = IF fw_j = n /\ fw_i = n /\ fw_k = n THEN "returned" ELSE "loop"
  /\ UNCHANGED <<inputVars, bfVars, ret, parent, primVars, pos, walkVars, mainVars>>

\* --------------------------------------------------------- reconstruct_path
\* the walk is followed for at most this many vertices
WalkCap == Len(vertices) + 1

\* lines 182-184, on the matrices floyd_warshall returned
ReconstructCall ==
  /\ pc = "returned"
  /\ \E a, b \in Range(vertices) :
       /\ arg_u' = a
       /\ walk_u' = a
       /\ walk_v' = b
       /\ IF next_node[pos[a]][pos[b]] = None
          THEN path' = <<>> /\ pc' = "path_returned"
          ELSE path' = <<a>> /\ pc' = "walk"
  /\ UNCHANGED <<inputVars, bfVars, ret, dist, parent, primVars, fwVars, mainVars>>

\* one iteration of "while u != v" (lines 185-187); a successor None is no
\* key of pos, so the next iteration fails with KeyError
WalkStep ==
  /\ pc = "walk"
  /\ walk_u # walk_v
  /\ Len(path) <= WalkCap
  /\ LET nxt == next_node[pos[walk_u]][pos[walk_v]]
     IN  /\ walk_u' = nxt
         /\ path' = Append(path, nxt)
         /\ pc' = IF nxt = None THEN "walk_raised" ELSE "walk"
  /\ UNCHANGED <<inputVars, bfVars, ret, dist, parent, primVars, fwVars,
                 arg_u, walk_v, mainVars>>

\* line 188
WalkReturn ==
  /\ pc = "walk"
  /\ walk_u = walk_v
  /\ pc' = "path_returned"
  /\ UNCHANGED <<inputVars, bfVars, ret, dist, parent, primVars, fwVars,
                 walkVars, mainVars>>

NextFW == FWStart \/ FWStep \/ ReconstructCall \/ WalkStep \/ WalkReturn

SpecFW == InitFW /\ [][NextFW]_vars

\* -------------------------------------------------------------------- main
\* outcome of the walk of reconstruct_path from cur to b: it returns, or it
\* fails on a successor None, or (no fuel left: a vertex came twice) it
\* goes round for ever
RECURSIVE WalkOutcome(_, _, _, _, _)
WalkOutcome(nx, ps, cur, b, fuel) ==
  IF cur = b THEN "returns"
  ELSE IF fuel = 0 THEN "loops"
  ELSE LET nxt == nx[ps[cur]][ps[b]]
       IN  IF nxt = None THEN "raises" ELSE WalkOutcome(nx, ps, nxt, b, fuel - 1)

\* lines 200-209: the outcomes of the walks the renderer asks for
FloydWalkOutcomes(vs, d, ps, nx) ==
  {WalkOutcome(nx, ps, vs[a], vs[b], Len(vs)) :
     <<a, b>> \in {q \in (DOMAIN vs) \X (DOMAIN vs) : q[1] # q[2] /\ d[q[1]][q[2]] # Inf}}

\* the state after read_dot_file (lines 38-49) and the parsing of argv
\* (lines 232-233); graphviz is whether the import of line 8 succeeded
InitMain ==
  /\ is_directed \in BOOLEAN
  /\ \E fes \in EdgeLists(NumVertices) :
       /\ edges = ReadEdges(is_directed, fes)
       /\ vertices = ReadVertices(fes)
  /\ plot \in BOOLEAN
  /\ graphviz \in BOOLEAN
  /\ source = None
  /\ Idle
  /\ pc = "prim"

\* lines 242-246; unpacking the bare [] that prim returns for no vertices
\* fails with ValueError
MainPrim ==
  /\ pc = "prim"
  /\ IF is_directed
     THEN /\ pc' = "bellman_ford"
          /\ UNCHANGED <<ret, bound, done>>
     ELSE LET r == prim(vertices, edges)
          IN  IF Len(r) # 2
              THEN /\ pc' = "aborted"
                   /\ UNCHANGED <<ret, bound, done>>
              ELSE /\ ret' = r
                   /\ bound' = bound \cup {"mst_edges", "total_weight"}
                   /\ done' = done \cup {"prim"}
                   /\ pc' = "bellman_ford"
  /\ UNCHANGED <<inputVars, bfVars, dist, parent, primVars, fwVars, walkVars,
                 is_directed, plot, graphviz>>

\* lines 249-256; vertices[0] of an empty list fails with IndexError
MainBellmanFord ==
  /\ pc = "bellman_ford"
  /\ IF vertices = <<>>
     THEN /\ pc' = "aborted"
          /\ UNCHANGED <<source, dist, parent, bound, done>>
     ELSE /\ source' = vertices[1]
          /\ LET r == bellman_ford(vertices, edges, vertices[1])
             IN  IF r.raised
                 THEN /\ done' = done \cup {"bellman_ford_error"}
                      /\ UNCHANGED <<dist, parent, bound>>
                 ELSE /\ dist' = r.dist
                      /\ parent' = r.parent
                      /\ bound' = bound \cup {"dist", "parent"}
                      /\ done' = done \cup {"bellman_ford"}
          /\ pc' = "floyd_warshall"
  /\ UNCHANGED <<inputVars, ret, pass, updated, primVars, fwVars, walkVars,
                 is_directed, plot, graphviz>>

\* lines 259-269
MainFloydWarshall ==
  /\ pc = "floyd_warshall"
  /\ pos' = PosOf(vertices)
  /\ LET m == floyd_warshall(vertices, edges)
     IN  /\ dist' = m.dist
         /\ next_node' = m.next_node
  /\ bound' = bound \cup {"dist", "pos", "next_node"}
  /\ done' = done \cup {"floyd_warshall"}
  /\ pc' = IF plot THEN "generate_graph" ELSE "exit"
  /\ UNCHANGED <<inputVars, bfVars, ret, parent, primVars, fw_k, fw_i, fw_j,
                 walkVars, is_directed, plot, graphviz>>

\* lines 270-276
MainGenerateGraph ==
  /\ pc = "generate_graph"
  /\ done' = done \cup {"generate_graph"}
  /\ pc' = "visualize_mst"
  /\ UNCHANGED <<inputVars, bfVars, ret, dist, parent, primVars, fwVars, walkVars,
                 is_directed, plot, graphviz, bound>>

\* lines 277-278
MainVisualizeMst ==
  /\ pc = "visualize_mst"
  /\ IF is_directed
     THEN done' = done
     ELSE done' = done \cup {"visualize_mst"}
  /\ pc' = "visualize_bellman_paths"
  /\ UNCHANGED <<inputVars, bfVars, ret, dist, parent, primVars, fwVars, walkVars,
                 is_directed, plot, graphviz, bound>>

\* line 279: the arguments are evaluated before the call, and parent is a
\* local of main that only a successful bellman_ford has assigned
MainVisualizeBellman ==
  /\ pc = "visualize_bellman_paths"
  /\ IF "parent" \notin bound
     THEN /\ pc' = "aborted"
          /\ done' = done
     ELSE /\ pc' = "visualize_floyd_paths"
          /\ done' = done \cup {"visualize_bellman_paths"}
  /\ UNCHANGED <<inputVars, bfVars, ret, dist, parent, primVars, fwVars, walkVars,
                 is_directed, plot, graphviz, bound>>

\* line 280 and lines 191-222
MainVisualizeFloyd ==
  /\ pc = "visualize_floyd_paths"
  /\ LET outcomes == IF graphviz THEN FloydWalkOutcomes(vertices, dist, pos, next_node) ELSE {}
     IN  IF "raises" \in outcomes THEN pc' = "aborted" /\ done' = done
         ELSE IF "loops" \in outcomes THEN pc' = "hung" /\ done' = done
         ELSE pc' = "exit" /\ done' = done \cup {"visualize_floyd_paths"}
  /\ UNCHANGED <<inputVars, bfVars, ret, dist, parent, primVars, fwVars, walkVars,
                 is_directed, plot, graphviz, bound>>

NextMain ==
  \/ MainPrim \/ MainBellmanFord \/ MainFloydWarshall \/ MainGenerateGraph
  \/ MainVisualizeMst \/ MainVisualizeBellman \/ MainVisualizeFloyd

SpecMain == InitMain /\ [][NextMain]_vars

\* --------------------------------------------- reference notions on graphs
HasEdge(es, a, b) == \E x \in DOMAIN es : es[x][1] = a /\ es[x][2] = b

\* weight of the lightest edge a -> b
RECURSIVE MinEdge(_, _, _)
MinEdge(es, a, b) ==
  IF es = <<>> THEN Inf
  ELSE LET e == Head(es)
           rest == MinEdge(Tail(es), a, b)
       IN  IF e[1] = a /\ e[2] = b THEN Min(e[3], rest) ELSE rest

Last(p) == p[Len(p)]

RECURSIVE PathWeight(_, _)
PathWeight(es, p) ==
  IF Len(p) <= 1 THEN 0
  ELSE Add(MinEdge(es, p[1], p[2]), PathWeight(es, Tail(p)))

IsPath(es, p) == \A x \in 1..(Len(p) - 1) : HasEdge(es, p[x], p[x + 1])

\* the paths of P and all their extensions by edges to vertices not yet on
\* the path
RECURSIVE GrowPaths(_, _)
GrowPaths(es, P) ==
  LET Q == P \cup {Append(q[1], es[q[2]][2]) :
                     q \in {r \in P \X (DOMAIN es) :
                              /\ es[r[2]][1] = Last(r[1])
                              /\ es[r[2]][2] \notin Range(r[1])}}
  IN  IF Q = P THEN P ELSE GrowPaths(es, Q)

\* the simple paths (no vertex twice) that start at a
PathsFrom(es, a) == GrowPaths(es, {<<a>>})

Reachable(es, a, b) == \E p \in PathsFrom(es, a) : Last(p) = b

\* minimum total weight over the simple paths a ~> b, Inf when there is none
PathDist(es, a, b) ==
  MinOf({PathWeight(es, p) : p \in {q \in PathsFrom(es, a) : Last(q) = b}})

\* a simple cycle of negative total weight through c
NegCycleAt(es, c) ==
  \E p \in PathsFrom(es, c) :
     /\ HasEdge(es, Last(p), c)
     /\ Add(PathWeight(es, p), MinEdge(es, Last(p), c)) < 0

NegCycleReachable(es, s) == \E p \in PathsFrom(es, s) : NegCycleAt(es, Last(p))

\* every cycle passes through the start of some edge
HasNegCycle(es) == \E x \in DOMAIN es : NegCycleAt(es, es[x][1])

Verts == Range(vertices)

\* ------------------------------------------------------------------ claims
Finished == pc \in {"returned", "raised"}

\* C1: when no negative cycle can be reached from a source of the graph,
\* bellman_ford returns, and its dist is 0 at the source, infinite at every
\* unreachable vertex and the least total weight of a path elsewhere.
C1_BellmanFordShortest ==
  (Finished /\ source \in Verts /\ ~NegCycleReachable(edges, source))
    => /\ pc = "returned"
       /\ ret[1][source] = 0
       /\ \A x \in Verts :
            /\ ret[1][x] = PathDist(edges, source, x)
            /\ (~Reachable(edges, source, x) => ret[1][x] = Inf)

\* a returned run in which a vertex is reached over two edges, one negative
C1_Witness ==
  /\ pc = "returned" /\ source \in Verts
  /\ \E x \in Verts :
       /\ ret[2][x] \notin {None, source}
       /\ ret[1][x] < 0

\* C2: bellman_ford raises exactly when a negative cycle can be reached
\* from the source, and then hands back no dist/parent; it returns when
\* every negative cycle is out of reach, however the pass loop ended.
C2_NegativeCycleDetected ==
  (Finished /\ source \in Verts)
    => /\ (pc = "raised") <=> NegCycleReachable(edges, source)
       /\ pc = "raised" => ret = <<"ValueError">>

\* the loop ended early on a graph whose negative cycle is out of reach
C2_Witness ==
  /\ pc = "returned" /\ source \in Verts
  /\ HasNegCycle(edges)
  /\ ~updated /\ pass >= 1

\* C8: a source that is no vertex of the graph makes bellman_ford fail
\* rather than return a distance map.
C8_UnknownSourceRejected ==
  (Finished /\ source \notin Verts) => pc = "raised"

\* C3: on a connected undirected graph prim returns |V|-1 edges whose total
\* weight is the least weight of a spanning tree.
C3_PrimMinimumSpanningTree ==
  (pc = "returned" /\ Undirected(edges) /\ Connected(vertices, edges))
    => /\ Len(ret[1]) = Len(vertices) - 1
       /\ ret[2] = MstWeight(vertices, edges)

\* a returned tree of two edges, one of them negative
C3_Witness ==
  /\ pc = "returned" /\ Undirected(edges) /\ Connected(vertices, edges)
  /\ Len(ret[1]) = 2
  /\ \E x \in DOMAIN ret[1] : ret[1][x][3] < 0

\* C9: prim fails on a directed edge set and on the empty vertex list
\* instead of returning a result.
C9_PrimRejectsDirectedOrEmpty ==
  (Finished /\ (vertices = <<>> \/ ~Undirected(edges))) => pc = "raised"


NoRepeat(p) == \A x, y \in DOMAIN p : x # y => p[x] # p[y]

Walking == pc \in {"walk", "walk_raised", "path_returned"}

\* C4: without negative cycles, row i of the matrix floyd_warshall returns
\* is the dist that bellman_ford returns from source i.
C4_FloydEqualsBellmanFord ==
  (pc = "returned" /\ ~HasNegCycle(edges))
    => \A a \in Verts :
         LET bf == bellman_ford(vertices, edges, a)
         IN  /\ ~bf.raised
             /\ \A b \in Verts : dist[pos[a]][pos[b]] = bf.dist[b]

\* a returned matrix with an entry over two edges, an infinite entry and no
\* negative cycle
C4_Witness ==
  /\ pc = "returned" /\ ~HasNegCycle(edges)
  /\ \E a, b \in Verts :
       /\ a # b /\ dist[pos[a]][pos[b]] # Inf
       /\ next_node[pos[a]][pos[b]] # b
  /\ \E a, b \in Verts : dist[pos[a]][pos[b]] = Inf

\* C5: without negative cycles, the walk for a pair at finite distance
\* never repeats a vertex, and it returns a sequence from u to v along edges
\* of the graph whose lightest-edge weights sum to the distance.
C5_PathRealisesDistance ==
  (Walking /\ dist[pos[arg_u]][pos[walk_v]] # Inf /\ ~HasNegCycle(edges))
    => /\ pc # "walk_raised"
       /\ NoRepeat(path)
       /\ pc = "path_returned" =>
            /\ path # <<>>
            /\ path[1] = arg_u
            /\ path[Len(path)] = walk_v
            /\ IsPath(edges, path)
            /\ PathWeight(edges, path) = dist[pos[arg_u]][pos[walk_v]]

\* a returned path of two edges
C5_Witness ==
  /\ pc = "path_returned" /\ ~HasNegCycle(edges)
  /\ Len(path) = 3

\* C6: from initialization on, the successor entry is undefined wherever
\* the distance is infinite; reconstruct_path(u, u) returns [u] and
\* reconstruct_path(u, v) returns the empty list at infinite distance.
C6_NoSuccessorAtInfinity ==
  /\ (pc \in {"loop", "returned"} \/ Walking)
       => \A a, b \in DOMAIN vertices :
            dist[a][b] = Inf => next_node[a][b] = None
  /\ pc = "path_returned"
       => /\ arg_u = walk_v => path = <<arg_u>>
          /\ dist[pos[arg_u]][pos[walk_v]] = Inf => path = <<>>

\* the empty list returned for a pair at infinite distance
C6_Witness ==
  /\ pc = "path_returned"
  /\ dist[pos[arg_u]][pos[walk_v]] = Inf
  /\ path = <<>>

\* C7: on the matrices of any graph the walk of reconstruct_path visits no
\* vertex twice and ends within n steps.
C7_WalkTerminates ==
  Walking => /\ NoRepeat(path)
             /\ Len(path) <= Len(vertices) + 1
             /\ pc # "walk_raised"

\* the steps of a run besides Bellman-Ford
OtherSteps ==
  {"floyd_warshall"}
    \cup (IF is_directed THEN {} ELSE {"prim"})
    \cup (IF plot THEN {"generate_graph", "visualize_floyd_paths"} ELSE {})
    \cup (IF plot /\ ~is_directed THEN {"visualize_mst"} ELSE {})

\* C10: a run of main in which bellman_ford raised never aborts, and it
\* ends with every other step done.
C10_BellmanFordFailureIsLocal ==
  "bellman_ford_error" \in done
    => /\ pc \notin {"aborted", "hung"}
       /\ pc = "exit" => OtherSteps \subseteq done

====
